---- MODULE Spec2Model ----
(***************************************************************************)
(* A model of nexradaws.NexradAwsInterface (nexradawsinterface.py): the    *)
(* five catalog listing operations, the time-range query, the time         *)
(* normaliser, the day enumerator and the download loop.                   *)
(*                                                                         *)
(* Strings that the code matches with regular expressions or builds with   *)
(* str.format are sequences of one-character strings.  A datetime is a     *)
(* record [wall, tz]: wall is its wall-clock reading in seconds counted    *)
(* from 00:00:00 of BaseDate, tz names its tzinfo.                         *)
(***************************************************************************)
EXTENDS Integers, Sequences, FiniteSets, TLC

VARIABLES
    lst,        \* the last catalog listing call: operation, response, outcome
    fmt,        \* the last _formattimerange call: arguments and outcome
    enum,       \* the last exhausted _datetime_range generator
    bucket,     \* the objects of the bucket, in the storage's listing order
    rng,        \* the last get_available_scans_in_range call
    fs,         \* local filesystem: directory path -> "absent" | "dir" | "file"
    dl          \* the download call in progress (or the last one finished)

vars == <<lst, fmt, enum, bucket, rng, fs, dl>>

----------------------------------------------------------------------------
(* Bounds of the model *)

\* longest listing response (number of entries) the listing actions draw
MaxEntries == 2
\* the query window spans the calendar days BaseDate .. BaseDate + MaxDay
MaxDay == 2
\* most objects the bucket holds
MaxScans == 2
\* longest batch handed to download
MaxBatch == 3

----------------------------------------------------------------------------
(* Generic helpers *)

Idle == [kind |-> "idle"]

Returned(v) == [kind |-> "returned", value |-> v]

Raised(e) == [kind |-> "raised", error |-> e]

\* all sequences over S of length 0..n
RECURSIVE SeqsUpTo(_, _)
SeqsUpTo(S, n) ==
    IF n = 0 THEN {<< >>}
    ELSE LET shorter == SeqsUpTo(S, n - 1)
         IN  shorter \cup {Append(s, x) : s \in {t \in shorter : Len(t) = n - 1}, x \in S}

----------------------------------------------------------------------------
(* Regular expressions of __init__, matched as re.match does: anchored at  *)
(* the start of the string, free at its end.                               *)

Digits == {"0", "1", "2", "3", "4", "5", "6", "7", "8", "9"}

\* one pattern token against one character: "d" is \d, "." is any character
\* but a newline, any other token is a literal
TokenMatches(tok, c) ==
    CASE tok = "d" -> c \in Digits
      [] tok = "." -> c # "\n"
      [] OTHER     -> c = tok

\* a fixed-width pattern matches the first Len(pat) characters of s
MatchesAt(pat, s) ==
    /\ Len(s) >= Len(pat)
    /\ \A i \in 1..Len(pat) : TokenMatches(pat[i], s[i])

\* '^(\d{4})/'
year_pat == <<"d", "d", "d", "d", "/">>

\* '^\d{4}/(\d{2})'
month_pat == <<"d", "d", "d", "d", "/", "d", "d">>

\* '^\d{4}/\d{2}/(\d{2})'
day_pat == <<"d", "d", "d", "d", "/", "d", "d", "/", "d", "d">>

\* '^\d{4}/\d{2}/\d{2}/(....)/'
radar_pat == <<"d", "d", "d", "d", "/", "d", "d", "/", "d", "d", "/",
               ".", ".", ".", ".", "/">>

\* the fixed-width head of _scan_re, '^\d{4}/\d{2}/\d{2}/..../'
scan_head_pat == radar_pat

\* the tail of _scan_re, '(.*.gz)', from position `from` of s: some run of
\* non-newline characters, then one more of them, then "g", then "z";
\* nothing anchors the end of the string
ScanTailMatches(s, from) ==
    \E j \in from..(Len(s) - 2) :
        /\ \A k \in from..j : s[k] # "\n"
        /\ s[j + 1] = "g"
        /\ s[j + 2] = "z"

\* a match object: re.match returns None (NoMatch) or a match with group(1)
NoMatch == [matched |-> FALSE]

Match(g) == [matched |-> TRUE, group1 |-> g]

\* self._year_re.match(s)
year_re(s) == IF MatchesAt(year_pat, s) THEN Match(SubSeq(s, 1, 4)) ELSE NoMatch

\* self._month_re.match(s)
month_re(s) == IF MatchesAt(month_pat, s) THEN Match(SubSeq(s, 6, 7)) ELSE NoMatch

\* self._day_re.match(s)
day_re(s) == IF MatchesAt(day_pat, s) THEN Match(SubSeq(s, 9, 10)) ELSE NoMatch

\* self._radar_re.match(s)
radar_re(s) == IF MatchesAt(radar_pat, s) THEN Match(SubSeq(s, 12, 15)) ELSE NoMatch

\* '(.*.gz)' is greedy: group(1) runs to the last "gz" of the string
ScanGroupEnd(s, from) ==
    CHOOSE e \in (from + 2)..Len(s) :
        /\ s[e - 1] = "g" /\ s[e] = "z"
        /\ \A e2 \in (e + 1)..Len(s) : ~(s[e2 - 1] = "g" /\ s[e2] = "z" /\ e2 - 2 >= from)

\* self._scan_re.match(s)
scan_re(s) ==
    IF /\ MatchesAt(scan_head_pat, s)
       /\ ScanTailMatches(s, Len(scan_head_pat) + 1)
    THEN Match(SubSeq(s, Len(scan_head_pat) + 1,
                      ScanGroupEnd(s, Len(scan_head_pat) + 1)))
    ELSE NoMatch

----------------------------------------------------------------------------
(* The listing response of list_objects: a dict that carries the key       *)
(* 'CommonPrefixes' (resp. 'Contents') only when the listing has child     *)
(* prefixes (resp. objects).  A dict is a function on the keys it carries. *)

\* dict.get(key): the value, or None when the key is missing
HasKey(resp, key) == key \in DOMAIN resp

\* the timestamp token of a scan filename that the parser cannot read
NoTime == -1

\* NexradAwsFile(scan): key, and scan_time parsed from the filename's
\* timestamp token (ts: its reading in seconds from 00:00:00 of BaseDate)
\* and labelled UTC; an unreadable token is a hard error
NexradAwsFile(scan) ==
    IF scan.ts = NoTime THEN Raised("TimestampParseFailure")
    ELSE Returned([key |-> scan.Key, scan_time |-> [wall |-> scan.ts, tz |-> "pytz.UTC"]])

RECURSIVE years_loop(_, _)
years_loop(prefixes, years) ==
    IF prefixes = << >> THEN years
    ELSE LET match == year_re(Head(prefixes).Prefix)
         IN  years_loop(Tail(prefixes),
                        IF match.matched THEN Append(years, match.group1) ELSE years)

\* get_available_years: iterating resp.get('CommonPrefixes') raises
\* TypeError when it is None
get_available_years(resp) ==
    IF ~HasKey(resp, "CommonPrefixes") THEN Raised("TypeError")
    ELSE Returned(years_loop(resp.CommonPrefixes, << >>))

RECURSIVE months_loop(_, _)
months_loop(prefixes, months) ==
    IF prefixes = << >> THEN months
    ELSE LET match == month_re(Head(prefixes).Prefix)
         IN  months_loop(Tail(prefixes),
                         IF match.matched THEN Append(months, match.group1) ELSE months)

get_available_months(resp) ==
    IF ~HasKey(resp, "CommonPrefixes") THEN Raised("TypeError")
    ELSE Returned(months_loop(resp.CommonPrefixes, << >>))

RECURSIVE days_loop(_, _)
days_loop(prefixes, days) ==
    IF prefixes = << >> THEN days
    ELSE LET match == day_re(Head(prefixes).Prefix)
         IN  days_loop(Tail(prefixes),
                       IF match.matched THEN Append(days, match.group1) ELSE days)

get_available_days(resp) ==
    IF ~HasKey(resp, "CommonPrefixes") THEN Raised("TypeError")
    ELSE Returned(days_loop(resp.CommonPrefixes, << >>))

RECURSIVE radars_loop(_, _)
radars_loop(prefixes, radars) ==
    IF prefixes = << >> THEN radars
    ELSE LET match == radar_re(Head(prefixes).Prefix)
         IN  radars_loop(Tail(prefixes),
                         IF match.matched THEN Append(radars, match.group1) ELSE radars)

get_available_radars(resp) ==
    IF ~HasKey(resp, "CommonPrefixes") THEN Raised("TypeError")
    ELSE Returned(radars_loop(resp.CommonPrefixes, << >>))

\* the loop of get_available_scans; the constructor's error leaves the loop
RECURSIVE scans_loop(_, _)
scans_loop(contents, scans) ==
    IF contents = << >> THEN Returned(scans)
    ELSE LET scan  == Head(contents)
             match == scan_re(scan.Key)
         IN  IF ~match.matched THEN scans_loop(Tail(contents), scans)
             ELSE LET file == NexradAwsFile(scan)
                  IN  IF file.kind = "raised" THEN file
                      ELSE scans_loop(Tail(contents), Append(scans, file.value))

get_available_scans(resp) ==
    IF ~HasKey(resp, "Contents") THEN Raised("TypeError")
    ELSE scans_loop(resp.Contents, << >>)

----------------------------------------------------------------------------
(* Listing responses the listing actions draw from *)

P_year == <<"2", "0", "1", "3", "/">>

P_month == P_year \o <<"0", "5", "/">>

P_day == P_month \o <<"3", "1", "/">>

P_radar == P_day \o <<"K", "T", "L", "X", "/">>

\* child prefixes: one of each level, an unrelated one, a three-digit
\* "month" and a three-character "site"
PrefixEntries ==
    { [Prefix |-> p] : p \in
        { P_year, P_month, P_day, P_radar,
          <<"l", "o", "g", "s", "/">>,
          P_year \o <<"0", "5", "5", "/">>,
          P_day \o <<"K", "T", "L", "/">> } }

\* objects: the directory marker, a scan, a scan with an unreadable
\* timestamp, a text file, and two names that hold "gz" but do not end ".gz"
ContentEntries ==
    { [Key |-> P_radar, ts |-> NoTime],
      [Key |-> P_radar \o <<"a", ".", "g", "z">>, ts |-> 10],
      [Key |-> P_radar \o <<"b", ".", "g", "z">>, ts |-> NoTime],
      [Key |-> P_radar \o <<"a", ".", "t", "x", "t">>, ts |-> NoTime],
      [Key |-> P_radar \o <<"a", ".", "g", "z", "x">>, ts |-> 20],
      [Key |-> P_radar \o <<"a", "l", "g", "z">>, ts |-> 30] }

\* a response with no child prefixes and no objects carries neither key
EmptyResponse == [IsTruncated |-> FALSE]

PrefixResponses ==
    {EmptyResponse} \cup
    { [IsTruncated |-> FALSE, CommonPrefixes |-> es] :
        es \in SeqsUpTo(PrefixEntries, MaxEntries) \ {<< >>} }

ContentResponses ==
    {EmptyResponse} \cup
    { [IsTruncated |-> FALSE, Contents |-> es] :
        es \in SeqsUpTo(ContentEntries, MaxEntries) \ {<< >>} }

----------------------------------------------------------------------------
(* The listing operations as actions: one call, its response, its outcome. *)
(* The interface keeps no state between calls, so a behaviour holds one    *)
(* call of a stateless operation.                                          *)

Call(op, resp, outcome) == [op |-> op, resp |-> resp, outcome |-> outcome]

GetAvailableYears ==
    /\ lst = Idle
    /\ \E resp \in PrefixResponses :
           lst' = Call("years", resp, get_available_years(resp))
    /\ UNCHANGED <<fmt, enum, bucket, rng, fs, dl>>

GetAvailableMonths ==
    /\ lst = Idle
    /\ \E resp \in PrefixResponses :
           lst' = Call("months", resp, get_available_months(resp))
    /\ UNCHANGED <<fmt, enum, bucket, rng, fs, dl>>

GetAvailableDays ==
    /\ lst = Idle
    /\ \E resp \in PrefixResponses :
           lst' = Call("days", resp, get_available_days(resp))
    /\ UNCHANGED <<fmt, enum, bucket, rng, fs, dl>>

GetAvailableRadars ==
    /\ lst = Idle
    /\ \E resp \in PrefixResponses :
           lst' = Call("radars", resp, get_available_radars(resp))
    /\ UNCHANGED <<fmt, enum, bucket, rng, fs, dl>>

GetAvailableScans ==
    /\ lst = Idle
    /\ \E resp \in ContentResponses :
           lst' = Call("scans", resp, get_available_scans(resp))
    /\ UNCHANGED <<fmt, enum, bucket, rng, fs, dl>>

----------------------------------------------------------------------------
(* Datetimes.  wall counts seconds from 00:00:00 of BaseDate; tz names the *)
(* tzinfo: "naive" is tzinfo None, "nulloffset" a tzinfo whose utcoffset   *)
(* returns None, "pytz.UTC" the pytz singleton, "utc" another zero-offset  *)
(* tzinfo (datetime.timezone.utc), "EST" and "CET" fixed-offset zones.     *)

\* timedelta(days=1) in seconds
SecondsPerDay == 86400

Zones == {"naive", "nulloffset", "pytz.UTC", "utc", "EST", "CET"}

\* d.tzinfo.utcoffset(d) is not None
HasUtcOffset(tz) == tz \in {"pytz.UTC", "utc", "EST", "CET"}

\* d.tzinfo.utcoffset(d), in seconds
UtcOffset(tz) ==
    CASE tz = "EST" -> -5 * 3600
      [] tz = "CET" -> 3600
      [] OTHER      -> 0

Datetime(wall, tz) == [wall |-> wall, tz |-> tz]

\* the absolute instant of an aware datetime, as seconds on the UTC clock
Instant(d) == d.wall - UtcOffset(d.tz)

_is_tzaware(d) ==
    IF d.tz # "naive" /\ HasUtcOffset(d.tz) THEN TRUE ELSE FALSE

\* d.astimezone(pytz.UTC): the same instant read on the UTC clock
astimezone_utc(d) == Datetime(d.wall - UtcOffset(d.tz), "pytz.UTC")

\* pytz.utc.localize(d): refuses a datetime whose tzinfo is set, else
\* d.replace(tzinfo=UTC)
localize_utc(d) ==
    IF d.tz # "naive" THEN Raised("ValueError")
    ELSE Returned(Datetime(d.wall, "pytz.UTC"))

\* one half of _formattimerange: the branch taken for one argument
to_utc(d) ==
    IF _is_tzaware(d)
    THEN IF d.tz # "pytz.UTC" THEN Returned(astimezone_utc(d)) ELSE Returned(d)
    ELSE localize_utc(d)

\* _formattimerange(start, end): start first; an error leaves the function
_formattimerange(start, end) ==
    LET utcstart == to_utc(start)
        utcend   == to_utc(end)
    IN  IF utcstart.kind = "raised" THEN utcstart
        ELSE IF utcend.kind = "raised" THEN utcend
        ELSE Returned(<<utcstart.value, utcend.value>>)

\* span.days with the quotient rounded toward zero instead of down
span_days_truncating(start, end) ==
    LET diff == IF start.tz = end.tz THEN end.wall - start.wall
                ELSE Instant(end) - Instant(start)
    IN  IF diff >= 0 THEN diff \div SecondsPerDay ELSE -((-diff) \div SecondsPerDay)

\* (end - start).days: timedelta normalises to 0 <= seconds < 86400, so
\* days is the floor of the span over one day (\div rounds down)
span_days(start, end) ==
    (IF start.tz = end.tz THEN end.wall - start.wall
     ELSE Instant(end) - Instant(start)) \div SecondsPerDay

\* _datetime_range(start, end), exhausted: start + timedelta(days=i) for
\* i in range(0, span.days + 1)
_datetime_range(start, end) ==
    [i \in 1..(IF span_days(start, end) + 1 > 0 THEN span_days(start, end) + 1 ELSE 0)
        |-> Datetime(start.wall + (i - 1) * SecondsPerDay, start.tz)]

\* _is_within_range(start, end, value)
_is_within_range(start, end, value) ==
    IF Instant(value) >= Instant(start) /\ Instant(value) <= Instant(end)
    THEN TRUE ELSE FALSE

----------------------------------------------------------------------------
(* The calendar behind day.year, day.month, day.day *)

\* the calendar date of wall = 0
BaseDate == [year |-> 2013, month |-> 5, day |-> 31]

IsLeap(y) == (y % 4 = 0 /\ y % 100 # 0) \/ y % 400 = 0

DaysInMonth(y, m) ==
    CASE m \in {4, 6, 9, 11} -> 30
      [] m = 2               -> IF IsLeap(y) THEN 29 ELSE 28
      [] OTHER               -> 31

NextDate(d) ==
    IF d.day < DaysInMonth(d.year, d.month) THEN [d EXCEPT !.day = d.day + 1]
    ELSE IF d.month < 12 THEN [year |-> d.year, month |-> d.month + 1, day |-> 1]
    ELSE [year |-> d.year + 1, month |-> 1, day |-> 1]

\* the date n >= 0 days after BaseDate
RECURSIVE DateAfter(_)
DateAfter(n) == IF n = 0 THEN BaseDate ELSE NextDate(DateAfter(n - 1))

\* the day number of a datetime's own calendar date (BaseDate is 0)
Ordinal(d) == d.wall \div SecondsPerDay

\* the date fields of a datetime: d.year, d.month, d.day
DateOf(d) == DateAfter(Ordinal(d))

----------------------------------------------------------------------------
(* str.format, str.upper *)

DigitChar(n) == <<"0", "1", "2", "3", "4", "5", "6", "7", "8", "9">>[n + 1]

\* str(n) for n >= 0
RECURSIVE DecStr(_)
DecStr(n) == IF n < 10 THEN <<DigitChar(n)>> ELSE Append(DecStr(n \div 10), DigitChar(n % 10))

\* '{0:0>2}'.format(n): right-aligned in a field of two, filled with "0"
Format02(n) == IF Len(DecStr(n)) < 2 THEN <<"0">> \o DecStr(n) ELSE DecStr(n)

UpperChar(c) ==
    CASE c = "k" -> "K"
      [] c = "t" -> "T"
      [] c = "l" -> "L"
      [] c = "x" -> "X"
      [] c = "o" -> "O"
      [] c = "u" -> "U"
      [] c = "n" -> "N"
      [] OTHER   -> c

\* radar.upper()
Upper(s) == [i \in 1..Len(s) |-> UpperChar(s[i])]

\* '{}/{}/{}/{}/'.format(year, month, day, radar)
ScanPrefix(year, month, day, radar) ==
    year \o <<"/">> \o month \o <<"/">> \o day \o <<"/">> \o radar \o <<"/">>

----------------------------------------------------------------------------
(* The bucket and list_objects(Prefix=..., Delimiter='/') *)

StartsWith(s, prefix) ==
    /\ Len(s) >= Len(prefix)
    /\ SubSeq(s, 1, Len(prefix)) = prefix

\* an object is listed under 'Contents' when its key starts with the prefix
\* and holds no delimiter after it; the key is missing when none is
list_objects(objects, prefix) ==
    LET contents ==
            SelectSeq(objects,
                      LAMBDA o : /\ StartsWith(o.Key, prefix)
                                 /\ \A i \in (Len(prefix) + 1)..Len(o.Key) : o.Key[i] # "/")
    IN  IF contents = << >> THEN EmptyResponse
        ELSE [IsTruncated |-> FALSE, Contents |-> contents]

----------------------------------------------------------------------------
(* get_available_scans_in_range *)

\* the loop over the enumerated days: one listing per day, then the filter;
\* calls collects the prefixes listed; an error of the listing leaves the loop
RECURSIVE range_loop(_, _, _, _, _, _, _)
range_loop(objects, days, utcstart, utcend, radar, scans, calls) ==
    IF days = << >> THEN [outcome |-> Returned(scans), calls |-> calls]
    ELSE LET day    == DateOf(Head(days))
             prefix == ScanPrefix(Format02(day.year), Format02(day.month),
                                  Format02(day.day), Upper(radar))
             availscans == get_available_scans(list_objects(objects, prefix))
         IN  IF availscans.kind = "raised"
             THEN [outcome |-> availscans, calls |-> Append(calls, prefix)]
             ELSE range_loop(objects, Tail(days), utcstart, utcend, radar,
                             scans \o SelectSeq(availscans.value,
                                        LAMBDA scan :
                                          _is_within_range(utcstart, utcend, scan.scan_time)),
                             Append(calls, prefix))

get_available_scans_in_range(objects, start, end, radar) ==
    LET utc == _formattimerange(start, end)
    IN  IF utc.kind = "raised" THEN [outcome |-> utc, calls |-> << >>]
        ELSE range_loop(objects, _datetime_range(utc.value[1], utc.value[2]),
                        utc.value[1], utc.value[2], radar, << >>, << >>)

----------------------------------------------------------------------------
(* Inputs of the time operations and the objects of the bucket *)

KTLX == <<"K", "T", "L", "X">>

KOUN == <<"K", "O", "U", "N">>

\* a scan of `site` taken `tod` seconds into day n, stored under that day's
\* partition of the site
ScanObject(site, n, tod) ==
    LET date == DateAfter(n)
        ts   == n * SecondsPerDay + tod
    IN  [Key |-> ScanPrefix(Format02(date.year), Format02(date.month),
                            Format02(date.day), site)
                 \o site \o DecStr(ts) \o <<".", "g", "z">>,
         ts  |-> ts]

\* times of day of the stored scans: 00:30:00, 23:00:00, 23:00:01
ScanTods == <<1800, 82800, 82801>>

\* every object the bucket may hold, in listing order: one KOUN scan, then
\* the KTLX scans of days 0..MaxDay
AllObjects ==
    <<ScanObject(KOUN, 0, 82800)>> \o
    [k \in 1..((MaxDay + 1) * Len(ScanTods)) |->
        ScanObject(KTLX, (k - 1) \div Len(ScanTods), ScanTods[((k - 1) % Len(ScanTods)) + 1])]

\* the elements of seq at the indices I, in seq's order
Restrict(seq, I) ==
    [j \in 1..Cardinality(I) |->
        seq[CHOOSE i \in I : Cardinality({x \in I : x < i}) = j - 1]]

Buckets ==
    { Restrict(AllObjects, I) :
        I \in {J \in SUBSET (1..Len(AllObjects)) : Cardinality(J) <= MaxScans} }

\* times of day of the query bounds: 01:00:00 and 23:00:00
QueryTods == {3600, 82800}

RangeInputs ==
    { Datetime(n * SecondsPerDay + tod, tz) :
        n \in 0..MaxDay, tod \in QueryTods, tz \in {"naive", "EST"} }
    \cup {Datetime(3600, "nulloffset")}

RadarInputs == {KTLX, <<"k", "t", "l", "x">>}

\* times of day of the bounds handed to _datetime_range
EnumTods == {0, 3600, 43200, 82800, 86399}

EnumInputs ==
    { Datetime(n * SecondsPerDay + tod, "pytz.UTC") : n \in 0..MaxDay, tod \in EnumTods }

FormatInputs ==
    { Datetime(wall, tz) : wall \in {3600, 82800}, tz \in Zones }

----------------------------------------------------------------------------
(* The time operations as actions *)

FormatTimeRange ==
    /\ fmt = Idle
    /\ \E start \in FormatInputs, end \in FormatInputs :
           fmt' = [start |-> start, end |-> end,
                   outcome |-> _formattimerange(start, end)]
    /\ UNCHANGED <<lst, enum, bucket, rng, fs, dl>>

DatetimeRange ==
    /\ enum = Idle
    /\ \E start \in EnumInputs, end \in EnumInputs :
           enum' = [start |-> start, end |-> end,
                    days |-> _datetime_range(start, end)]
    /\ UNCHANGED <<lst, fmt, bucket, rng, fs, dl>>

GetAvailableScansInRange ==
    /\ rng = Idle
    /\ \E start \in RangeInputs, end \in RangeInputs, radar \in RadarInputs :
           LET r == get_available_scans_in_range(bucket, start, end, radar)
           IN  rng' = [start |-> start, end |-> end, radar |-> radar,
                       utc |-> _formattimerange(start, end),
                       calls |-> r.calls, outcome |-> r.outcome]
    /\ UNCHANGED <<lst, fmt, enum, bucket, fs, dl>>

----------------------------------------------------------------------------
(* download.  A path is a sequence of characters.  The filesystem records, *)
(* for the base path and each directory below it that a download targets,  *)
(* whether it is absent, a directory or a regular file.                    *)

\* the position of the last "/" of s (0 when there is none)
LastSlash(s) ==
    IF \E i \in 1..Len(s) : s[i] = "/"
    THEN CHOOSE i \in 1..Len(s) : s[i] = "/" /\ \A j \in (i + 1)..Len(s) : s[j] # "/"
    ELSE 0

\* os.path.split(key): (awspath, filename)
awspath(key) == SubSeq(key, 1, LastSlash(key) - 1)

filename(key) == SubSeq(key, LastSlash(key) + 1, Len(key))

\* awsfile.create_filepath(basepath, keep_aws_folders): (dirpath, filepath)
create_filepath(awsfile, basepath, keep_aws_folders) ==
    LET dirpath == IF keep_aws_folders
                   THEN basepath \o <<"/">> \o awspath(awsfile.key)
                   ELSE basepath
    IN  [dirpath |-> dirpath, filepath |-> dirpath \o <<"/">> \o filename(awsfile.key)]

\* os.makedirs(path) on filesystem fsys: EEXIST when the path exists,
\* ENOTDIR when the base path above it is a regular file, EACCES when the
\* system denies the creation; otherwise the path and the base path above it
\* become directories
makedirs(fsys, path, basepath, denied) ==
    IF fsys[path] # "absent" THEN [errno |-> "EEXIST", fs |-> fsys]
    ELSE IF fsys[basepath] = "file" THEN [errno |-> "ENOTDIR", fs |-> fsys]
    ELSE IF denied THEN [errno |-> "EACCES", fs |-> fsys]
    ELSE [errno |-> "none",
          fs |-> [q \in DOMAIN fsys |-> IF q \in {path, basepath} THEN "dir" ELSE fsys[q]]]

\* _make_directories without the EEXIST branch: every OSError is raised
_make_directories_strict(fsys, path, basepath, denied) ==
    LET r == makedirs(fsys, path, basepath, denied)
    IN  [raised |-> r.errno # "none", errno |-> r.errno, fs |-> r.fs]

\* _make_directories(path): EEXIST on a directory is passed over, any other
\* OSError is raised again
_make_directories(fsys, path, basepath, denied) ==
    LET r == makedirs(fsys, path, basepath, denied)
    IN  IF r.errno = "none" THEN [raised |-> FALSE, errno |-> r.errno, fs |-> r.fs]
        ELSE IF r.errno = "EEXIST" /\ r.fs[path] = "dir"
        THEN [raised |-> FALSE, errno |-> r.errno, fs |-> r.fs]
        ELSE [raised |-> TRUE, errno |-> r.errno, fs |-> r.fs]

\* localfiles.insert(0, ...) in place of localfiles.append(...)
prepend_localfile(localfiles, awsfile, filepath) ==
    <<[awsfile |-> awsfile, filepath |-> filepath]>> \o localfiles

\* localfiles.append(LocalNexradFile(awsfile, filepath))
append_localfile(localfiles, awsfile, filepath) ==
    Append(localfiles, [awsfile |-> awsfile, filepath |-> filepath])

\* isinstance(nexradawsfiles, list): the records the call works through
files_of(nexradawsfiles) ==
    IF nexradawsfiles.kind = "list" THEN nexradawsfiles.items
    ELSE <<nexradawsfiles.item>>

\* entering download: localfiles = []; an empty list falls through to return
download_begin(nexradawsfiles, basepath, keep_aws_folders) ==
    [pc |-> IF files_of(nexradawsfiles) = << >> THEN "done" ELSE "mkdir",
     input |-> nexradawsfiles, basepath |-> basepath, keep |-> keep_aws_folders,
     i |-> 1, localfiles |-> << >>, calls |-> << >>,
     outcome |-> IF files_of(nexradawsfiles) = << >> THEN Returned(<< >>) ELSE Idle]

\* the self._make_directories(dirpath) line of the current record
download_mkdir(d, fsys, denied) ==
    LET awsfile == files_of(d.input)[d.i]
        dirpath == create_filepath(awsfile, d.basepath, d.keep).dirpath
        r       == _make_directories(fsys, dirpath, d.basepath, denied)
        call    == [op |-> "makedirs", i |-> d.i, arg |-> dirpath, errno |-> r.errno,
                    isdir |-> r.fs[dirpath] = "dir"]
    IN  [fs |-> r.fs,
         dl |-> IF r.raised
                THEN [d EXCEPT !.pc = "raised", !.calls = Append(d.calls, call),
                               !.outcome = Raised("OSError")]
                ELSE [d EXCEPT !.pc = "xfer", !.calls = Append(d.calls, call)]]

\* a best-effort loop: a failed transfer is skipped and the batch goes on
download_transfer_besteffort(d, ok) ==
    LET awsfile  == files_of(d.input)[d.i]
        filepath == create_filepath(awsfile, d.basepath, d.keep).filepath
        call     == [op |-> "download_file", i |-> d.i, arg |-> awsfile.key, ok |-> ok]
        files    == IF ok THEN append_localfile(d.localfiles, awsfile, filepath)
                    ELSE d.localfiles
    IN  IF d.i < Len(files_of(d.input))
        THEN [d EXCEPT !.pc = "mkdir", !.i = d.i + 1, !.localfiles = files,
                       !.calls = Append(d.calls, call)]
        ELSE [d EXCEPT !.pc = "done", !.localfiles = files,
                       !.calls = Append(d.calls, call), !.outcome = Returned(files)]

\* the self._bucket.download_file(awsfile.key, filepath) line of the current
\* record and the append after it; the transfer's error leaves download
download_transfer(d, ok) ==
    LET awsfile  == files_of(d.input)[d.i]
        filepath == create_filepath(awsfile, d.basepath, d.keep).filepath
        call     == [op |-> "download_file", i |-> d.i, arg |-> awsfile.key, ok |-> ok]
        files    == append_localfile(d.localfiles, awsfile, filepath)
    IN  IF ~ok
        THEN [d EXCEPT !.pc = "raised", !.calls = Append(d.calls, call),
                       !.outcome = Raised("ClientError")]
        ELSE IF d.i < Len(files_of(d.input))
        THEN [d EXCEPT !.pc = "mkdir", !.i = d.i + 1, !.localfiles = files,
                       !.calls = Append(d.calls, call)]
        ELSE [d EXCEPT !.pc = "done", !.localfiles = files,
                       !.calls = Append(d.calls, call), !.outcome = Returned(files)]

----------------------------------------------------------------------------
(* Inputs of download *)

\* three remote records: two of one day's partition, one of the next day's
DlRecords ==
    { [key |-> ScanObject(KTLX, 0, 82800).Key],
      [key |-> ScanObject(KTLX, 0, 82801).Key],
      [key |-> ScanObject(KTLX, 1, 1800).Key] }

BasePath == <<"r">>

DlInputs ==
    { [kind |-> "list", items |-> fl] : fl \in SeqsUpTo(DlRecords, MaxBatch) }
    \cup { [kind |-> "single", item |-> f] : f \in DlRecords }

\* the directories a download may target
DirPaths ==
    {BasePath} \cup { create_filepath(f, BasePath, TRUE).dirpath : f \in DlRecords }

\* filesystems to start from: a directory below the base path exists only
\* when the base path is a directory
InitialFs ==
    { f \in [DirPaths -> {"absent", "dir", "file"}] :
        f[BasePath] # "dir" => \A q \in DirPaths \ {BasePath} : f[q] = "absent" }

----------------------------------------------------------------------------
(* download as actions: the call, then one step per line of the loop body *)

Download ==
    /\ dl.pc \in {"idle", "done", "raised"}
    /\ \E nexradawsfiles \in DlInputs, keep_aws_folders \in BOOLEAN :
           dl' = download_begin(nexradawsfiles, BasePath, keep_aws_folders)
    /\ UNCHANGED <<lst, fmt, enum, bucket, rng, fs>>

MakeDirectories ==
    /\ dl.pc = "mkdir"
    /\ \E denied \in BOOLEAN :
           LET r == download_mkdir(dl, fs, denied)
           IN  /\ fs' = r.fs
               /\ dl' = r.dl
    /\ UNCHANGED <<lst, fmt, enum, bucket, rng>>

DownloadFile ==
    /\ dl.pc = "xfer"
    /\ \E ok \in BOOLEAN : dl' = download_transfer(dl, ok)
    /\ UNCHANGED <<lst, fmt, enum, bucket, rng, fs>>

----------------------------------------------------------------------------
(* Specifications: one per group of operations; the variables of the other *)
(* groups keep their initial values.                                       *)

IdleDl ==
    [pc |-> "idle", input |-> [kind |-> "list", items |-> << >>], basepath |-> BasePath,
     keep |-> FALSE, i |-> 1, localfiles |-> << >>, calls |-> << >>, outcome |-> Idle]

InitCommon ==
    /\ lst = Idle
    /\ fmt = Idle
    /\ enum = Idle
    /\ rng = Idle
    /\ dl = IdleDl

InitFixed ==
    /\ InitCommon
    /\ bucket = << >>
    /\ fs = [q \in DirPaths |-> "absent"]

\* the catalog listing operations, over every response drawn
NextList ==
    \/ GetAvailableYears
    \/ GetAvailableMonths
    \/ GetAvailableDays
    \/ GetAvailableRadars
    \/ GetAvailableScans

SpecList == InitFixed /\ [][NextList]_vars

\* _formattimerange
SpecFormat == InitFixed /\ [][FormatTimeRange]_vars

\* _datetime_range
SpecEnum == InitFixed /\ [][DatetimeRange]_vars

\* the range query, over every bucket drawn
InitRange ==
    /\ InitCommon
    /\ bucket \in Buckets
    /\ fs = [q \in DirPaths |-> "absent"]

SpecRange == InitRange /\ [][GetAvailableScansInRange]_vars

\* download, over every filesystem drawn; calls follow one another on the
\* filesystem the earlier ones left
Init ==
    /\ InitCommon
    /\ bucket = << >>
    /\ fs \in InitialFs

Next ==
    \/ Download
    \/ MakeDirectories
    \/ DownloadFile

Spec == Init /\ [][Next]_vars

----------------------------------------------------------------------------
(* Properties *)

\* the bounds of a finished range query, once normalised
RngStart == rng.utc.value[1]

RngEnd == rng.utc.value[2]

RngNormalised == rng # Idle /\ rng.utc.kind = "returned"

\* the records of the objects of `radar` whose timestamp lies in [start, end]
ScansInWindow(objects, start, end, radar) ==
    LET hits == SelectSeq(objects,
                          LAMBDA o : /\ SubSeq(o.Key, 12, 15) = Upper(radar)
                                     /\ Instant(start) <= o.ts
                                     /\ o.ts <= Instant(end))
    IN  [i \in 1..Len(hits) |->
            [key |-> hits[i].Key, scan_time |-> Datetime(hits[i].ts, "pytz.UTC")]]

\* C1: a range query with start <= end that returns, returns exactly the
\* scans of the radar whose timestamp t satisfies start <= t <= end,
\* whichever calendar day of the interval they are stored under.
C1_RangeReturnsExactlyWindow ==
    (/\ RngNormalised
     /\ Instant(RngStart) <= Instant(RngEnd)
     /\ rng.outcome.kind = "returned")
    => rng.outcome.value = ScansInWindow(bucket, RngStart, RngEnd, rng.radar)

\* C2: for start <= end, _datetime_range yields one entry per calendar date
\* from the date of start through the date of end, in ascending order,
\* whatever the times of day.
C2_OneEntryPerCalendarDate ==
    (enum # Idle /\ Instant(enum.start) <= Instant(enum.end))
    => /\ Len(enum.days) = Ordinal(enum.end) - Ordinal(enum.start) + 1
       /\ \A i \in 1..Len(enum.days) :
              Ordinal(enum.days[i]) = Ordinal(enum.start) + i - 1

\* the key of the response a listing operation reads
EntriesKey(op) == IF op = "scans" THEN "Contents" ELSE "CommonPrefixes"

\* the entries a response carries for an operation (none when the key is
\* missing)
EntriesOf(op, resp) == IF HasKey(resp, EntriesKey(op)) THEN resp[EntriesKey(op)] ELSE << >>

\* C3: a listing operation whose response carries no entries returns the
\* empty list and raises nothing.
C3_EmptyListingReturnsEmpty ==
    (lst # Idle /\ EntriesOf(lst.op, lst.resp) = << >>)
    => lst.outcome = Returned(<< >>)

\* the form YYYY/MM/DD/SITE/filename: four digits, two digits, two digits, a
\* site of exactly four characters, and a filename that ends in ".gz"
KeyHasScanForm(key) ==
    /\ MatchesAt(<<"d", "d", "d", "d", "/", "d", "d", "/", "d", "d", "/">>, key)
    /\ Len(key) >= 16 + 3
    /\ \A i \in 12..15 : key[i] # "/"
    /\ key[16] = "/"
    /\ \A i \in 17..Len(key) : key[i] # "/"
    /\ SubSeq(key, Len(key) - 2, Len(key)) = <<".", "g", "z">>

\* whether an entry matches the structural pattern of its level
MatchesLevel(op, e) ==
    CASE op = "years"  -> MatchesAt(year_pat, e.Prefix)
      [] op = "months" -> MatchesAt(month_pat, e.Prefix)
      [] op = "days"   -> MatchesAt(day_pat, e.Prefix)
      [] op = "radars" -> MatchesAt(radar_pat, e.Prefix)
      [] op = "scans"  -> KeyHasScanForm(e.Key)

\* what a listing operation returns for a matching entry
ItemOf(op, e) ==
    CASE op = "years"  -> SubSeq(e.Prefix, 1, 4)
      [] op = "months" -> SubSeq(e.Prefix, 6, 7)
      [] op = "days"   -> SubSeq(e.Prefix, 9, 10)
      [] op = "radars" -> SubSeq(e.Prefix, 12, 15)
      [] op = "scans"  -> [key |-> e.Key, scan_time |-> Datetime(e.ts, "pytz.UTC")]

MatchingItems(op, entries) ==
    LET hits == SelectSeq(entries, LAMBDA e : MatchesLevel(op, e))
    IN  [i \in 1..Len(hits) |-> ItemOf(op, hits[i])]

\* C7: for every listing response whose matching scans all carry a readable
\* timestamp, the operation returns exactly the entries that match its
\* level's pattern, in the response's order, and raises nothing.
C7_ListingIsMatchingSubsequence ==
    (/\ lst # Idle
     /\ \A i \in 1..Len(EntriesOf(lst.op, lst.resp)) :
            lst.op = "scans" => EntriesOf(lst.op, lst.resp)[i].ts # NoTime)
    => lst.outcome = Returned(MatchingItems(lst.op, EntriesOf(lst.op, lst.resp)))

\* C8: every record get_available_scans returns has a key of the form
\* YYYY/MM/DD/SITE/filename whose filename ends in ".gz".
C8_ReturnedKeysHaveScanForm ==
    (lst # Idle /\ lst.op = "scans" /\ lst.outcome.kind = "returned")
    => \A i \in 1..Len(lst.outcome.value) : KeyHasScanForm(lst.outcome.value[i].key)

\* a datetime is naive when its tzinfo is None or gives no utcoffset
IsNaive(d) == d.tz = "naive" \/ ~HasUtcOffset(d.tz)

\* what normalising one argument is to give: UTC-labelled; the same wall
\* clock for a naive argument, the same instant for an aware one
NormalisedFrom(d, u) ==
    /\ u.tz = "pytz.UTC"
    /\ IF IsNaive(d) THEN u.wall = d.wall
       ELSE u.wall = d.wall - UtcOffset(d.tz)

\* C9: _formattimerange rejects no pair and returns two UTC-labelled
\* datetimes, each argument handled on its own: a naive one relabelled, an
\* aware one converted to the same instant.
C9_NormaliseIsTotal ==
    fmt # Idle
    => /\ fmt.outcome.kind = "returned"
       /\ NormalisedFrom(fmt.start, fmt.outcome.value[1])
       /\ NormalisedFrom(fmt.end, fmt.outcome.value[2])

\* C10: when the normalised end lies before the normalised start,
\* _datetime_range yields nothing, the query lists nothing and returns the
\* empty list.
C10_ReversedRangeIsEmpty ==
    (RngNormalised /\ Instant(RngEnd) < Instant(RngStart))
    => /\ _datetime_range(RngStart, RngEnd) = << >>
       /\ rng.calls = << >>
       /\ rng.outcome = Returned(<< >>)

\* a reversed query within one calendar date, for a radar that has a scan
\* stored under that date
C10_Witness ==
    /\ RngNormalised
    /\ Instant(RngEnd) < Instant(RngStart)
    /\ Ordinal(RngEnd) = Ordinal(RngStart)
    /\ \E i \in 1..Len(bucket) :
           /\ SubSeq(bucket[i].Key, 12, 15) = Upper(rng.radar)
           /\ bucket[i].ts \div SecondsPerDay = Ordinal(RngStart)
    /\ rng.outcome = Returned(<< >>)

\* the records a download call was handed, as a sequence
DlFiles == IF dl.input.kind = "list" THEN dl.input.items ELSE <<dl.input.item>>

\* a logged call that failed: a transfer that failed, or a directory step
\* that met an error other than EEXIST on a directory
CallFailed(c) ==
    IF c.op = "download_file" THEN ~c.ok
    ELSE c.errno # "none" /\ ~(c.errno = "EEXIST" /\ c.isdir)

\* C4: a download that ends without a failed directory creation or transfer
\* returns one local file per input record, the i-th referencing the i-th
\* record; a download raises only after a failed step.
C4_DownloadMirrorsInput ==
    /\ dl.pc = "done"
       => /\ dl.outcome.kind = "returned"
          /\ Len(dl.outcome.value) = Len(DlFiles)
          /\ \A i \in 1..Len(DlFiles) : dl.outcome.value[i].awsfile = DlFiles[i]
    /\ (dl.pc # "idle" /\ \A j \in 1..Len(dl.calls) : ~CallFailed(dl.calls[j]))
       => dl.pc # "raised"

\* a finished batch of three records, not all the same
C4_Witness ==
    /\ dl.pc = "done"
    /\ dl.input.kind = "list"
    /\ Len(dl.input.items) = 3
    /\ dl.input.items[1] # dl.input.items[2]
    /\ Len(dl.outcome.value) = 3

\* C5: a failed transfer of the k-th record ends download with the
\* transport's error and no result; the transfer was tried once, and no
\* directory creation or transfer was issued for a later record.
C5_TransferFailureAborts ==
    \A j \in 1..Len(dl.calls) :
        (dl.calls[j].op = "download_file" /\ ~dl.calls[j].ok)
        => /\ dl.pc = "raised"
           /\ dl.outcome = Raised("ClientError")
           /\ j = Len(dl.calls)
           /\ Cardinality({m \in 1..Len(dl.calls) :
                  dl.calls[m].op = "download_file" /\ dl.calls[m].i = dl.calls[j].i}) = 1
           /\ \A m \in 1..Len(dl.calls) : dl.calls[m].i <= dl.calls[j].i

\* the second transfer of a batch of three failed after the first succeeded
C5_Witness ==
    /\ dl.pc = "raised"
    /\ dl.outcome = Raised("ClientError")
    /\ Len(DlFiles) = 3
    /\ dl.i = 2
    /\ Len(dl.localfiles) = 1

\* C6: a directory step that finds its directory already there as a
\* directory does not raise and the record's transfer follows; a directory
\* step that fails any other way ends download with its error, with no
\* transfer for that record or a later one.
C6_DirectoryStep ==
    \A j \in 1..Len(dl.calls) :
        dl.calls[j].op = "makedirs"
        => IF dl.calls[j].errno = "none" \/ (dl.calls[j].errno = "EEXIST" /\ dl.calls[j].isdir)
           THEN IF j = Len(dl.calls) THEN dl.pc = "xfer"
                ELSE /\ dl.calls[j + 1].op = "download_file"
                     /\ dl.calls[j + 1].i = dl.calls[j].i
           ELSE /\ j = Len(dl.calls)
                /\ dl.pc = "raised"
                /\ dl.outcome = Raised("OSError")
                /\ \A m \in 1..Len(dl.calls) :
                       dl.calls[m].op = "download_file" => dl.calls[m].i < dl.calls[j].i

\* the directory of the second record was already there, and its transfer
\* was issued
C6_Witness ==
    \E j \in 1..Len(dl.calls) :
        /\ dl.calls[j].op = "makedirs"
        /\ dl.calls[j].errno = "EEXIST"
        /\ dl.calls[j].isdir
        /\ dl.calls[j].i = 2
        /\ j < Len(dl.calls)
        /\ dl.calls[j + 1].op = "download_file"

====
